---- MODULE Spec2Model ----
(***************************************************************************)
(* A model of the utest single-header unit-test engine (include/utest.h):  *)
(* the test runner (details::testFunc / testFunc2), the process-wide       *)
(* result store and run configuration, UTEST_PROLOG / UTEST_EPILOG, and    *)
(* the assertion macros with the AssertionException they raise.            *)
(*                                                                         *)
(* Text is modelled by TLA+ strings built with \o exactly as the code      *)
(* builds it with operator<<.  The two non-ASCII check marks are written   *)
(* "<U+2713>" and "<U+2717>".  std::cout is observed one operation at a    *)
(* time: cout holds the lines the most recent operation wrote.             *)
(* A thrown value no handler catches leaves main: std::terminate.          *)
(***************************************************************************)
EXTENDS Integers, Sequences, FiniteSets, TLC

\* ------------------------------------------------------------------ bounds
\* at most this many UTEST_FUNC / UTEST_FUNC2 invocations after a prolog
MaxTests == 3

\* the group labels a caller uses; "" is what testFunc stores (ungrouped)
GroupLabels == {"A", "B"}

\* measured durations, in microseconds (duration_cast<microseconds>)
Durations == {1500}

\* ------------------------------------------------------- program constants
EXIT_SUCCESS == 0
EXIT_FAILURE == 1

\* char codes of the labels, as std::string stores them
Bytes(s) ==
    CASE s = ""   -> << >>
      [] s = "A"  -> <<65>>
      [] s = "B"  -> <<66>>
      [] s = "AB" -> <<65, 66>>
      [] s = "a"  -> <<97>>
      [] OTHER    -> <<127>>

\* ------------------------------------------------------------- exceptions
\* What escapes a callable: nothing, an AssertionException, some other
\* std::exception, or a thrown value that is not a std::exception.
NoException == [type |-> "none", what |-> "", file |-> "", line |-> 0, function |-> ""]

\* AssertionException(const std::string& message): location sentinel
AssertionException1(message) ==
    [type |-> "AssertionException", what |-> message,
     file |-> "unknown", line |-> 0, function |-> "unknown"]

\* AssertionException(message, file, line, function)
AssertionException4(message, file, line, function) ==
    [type |-> "AssertionException", what |-> message,
     file |-> file, line |-> line, function |-> function]

\* any std::exception that is not an AssertionException, e.g. runtime_error
StdException(what) ==
    [type |-> "std::exception", what |-> what, file |-> "", line |-> 0, function |-> ""]

\* a thrown value of a type outside the std::exception hierarchy (throw 42)
OtherThrown == [type |-> "other", what |-> "", file |-> "", line |-> 0, function |-> ""]

\* getFormattedMessage that leaves the location out
getFormattedMessage_mut(e) == e.what

\* AssertionException::getFormattedMessage
getFormattedMessage(e) ==
    e.what \o " at " \o e.file \o ":" \o ToString(e.line) \o " in " \o e.function

\* --------------------------------------------------------------- variables
VARIABLES
    results,        \* getTestResults(): the vector of TestResult
    errorFound,     \* the bool declared by UTEST_PROLOG
    allowEmpty,     \* getAllowEmptyTests()
    useAscii,       \* getUseAsciiCheckmarks()
    showPerf,       \* getShowPerformanceInfo()
    verbose,        \* getVerboseMode()
    cout,           \* the lines the most recent operation of the runner wrote
                    \* to std::cout (a setter writes none)
    pc,             \* "start", "running" (after prolog), "done" (epilog
                    \* returned), "terminated" (exception left main)
    exitStatus,     \* value returned by UTEST_EPILOG, -1 before it returned
    calls,          \* number of testFunc/testFunc2 invocations since prolog
    lastCall,       \* the most recent invocation and what its callable did
    priorFailure,   \* history: a test failed before the most recent prolog
    shown,          \* history: getUseAsciiCheckmarks() and
                    \* getShowPerformanceInfo() as the most recent runner
                    \* read them (kept by SpecConfig only)
    call,           \* the assertion macro being expanded, with its operands
    apc,            \* its position: "idle", "called", "rejected" (by the
                    \* build), "returned", "raised"
    raised,         \* the exception it raised, NoException if none
    invoked         \* how many times it has called the callable it was given

vars == <<results, errorFound, allowEmpty, useAscii, showPerf, verbose,
          cout, pc, exitStatus, calls, lastCall, priorFailure, shown, call, apc,
          raised, invoked>>

\* the state of the runner and of the store, and the state of one assertion
runnerVars == <<results, errorFound, allowEmpty, useAscii, showPerf, verbose,
                cout, pc, exitStatus, calls, lastCall, priorFailure, shown>>
assertVars == <<call, apc, raised, invoked>>

config == <<allowEmpty, useAscii, showPerf, verbose>>

NoCall == [group |-> "", name |-> "", thrown |-> NoException, returned |-> TRUE]

\* the two statics a runner reads for its result line
Marks == [ascii |-> useAscii, perf |-> showPerf]

\* what the callables of the modelled callers do
Behaviours ==
    { NoException,
      AssertionException4("condition is false: 'x'", "t.cpp", 42, "void test_x()"),
      StdException("boom"),
      StdException(""),
      OtherThrown }

\* the k-th test invoked after a prolog is test_Tk
TestName(k) == "T" \o ToString(k)

\* ---------------------------------------------------------------- printing
\* std::fixed << std::setprecision(3) << elapsedTime, elapsedTime being
\* microseconds / 1000.0
Pad3(n) == IF n < 10 THEN "00" \o ToString(n)
           ELSE IF n < 100 THEN "0" \o ToString(n) ELSE ToString(n)

FixedMs(us) == ToString(us \div 1000) \o "." \o Pad3(us % 1000)

successMark(ascii) == IF ascii THEN "[OK]" ELSE "<U+2713>"
failMark(ascii) == IF ascii THEN "[FAIL]" ELSE "<U+2717>"

PerfSuffix(perf, us) == IF perf THEN " (" \o FixedMs(us) \o "ms)" ELSE ""

\* ------------------------------------------------------------ test runner
\* The try / catch block of testFunc and testFunc2 (the two are the same
\* statement for statement; qname is name, resp. group::name).  f is what
\* the callable does, us the measured duration.  escapes: no handler
\* matched, the exception propagates to the caller and nothing after the
\* try block runs.
RunCallable(result, qname, f, us, ascii, perf) ==
    CASE f.type = "none" ->
           [escapes |-> FALSE, failed |-> FALSE,
            result  |-> [result EXCEPT !.elapsedTime = us],
            line    |-> successMark(ascii) \o " Test [" \o qname \o "] succeeded"
                          \o PerfSuffix(perf, us)]
      [] f.type = "AssertionException" ->
           [escapes |-> FALSE, failed |-> TRUE,
            result  |-> [result EXCEPT !.elapsedTime = us, !.passed = FALSE,
                                       !.error = getFormattedMessage(f)],
            line    |-> failMark(ascii) \o " Test [" \o qname \o "] failed!, error: "
                          \o getFormattedMessage(f) \o PerfSuffix(perf, us)]
      [] f.type = "std::exception" ->
           [escapes |-> FALSE, failed |-> TRUE,
            result  |-> [result EXCEPT !.elapsedTime = us, !.passed = FALSE,
                                       !.error = f.what],
            line    |-> failMark(ascii) \o " Test [" \o qname
                          \o "] failed with unexpected exception!, error: "
                          \o f.what \o PerfSuffix(perf, us)]
      [] OTHER ->
           [escapes |-> TRUE, failed |-> FALSE, result |-> result, line |-> ""]

\* the TestResult both runners start from
NewResult(group, name) ==
    [name |-> name, group |-> group, passed |-> TRUE, error |-> "", elapsedTime |-> 0]

\* an announcement printed whatever getVerboseMode() says
Announce_mut(qname) == <<"Running test: " \o qname>>

\* if (getVerboseMode()) std::cout << "Running test: " << name << "\n"
Announce(qname) == IF verbose THEN <<"Running test: " \o qname>> ELSE << >>

\* a runner that puts the new record at the front of the store
Finish_mut(group, name, qname, f, us) ==
    LET r == RunCallable(NewResult(group, name), qname, f, us, useAscii, showPerf) IN
    /\ calls' = calls + 1
    /\ lastCall' = [group |-> group, name |-> name, thrown |-> f, returned |-> ~r.escapes]
    /\ IF r.escapes
       THEN /\ pc' = "terminated"
            /\ cout' = Announce(qname)
            /\ UNCHANGED <<results, errorFound>>
       ELSE /\ pc' = pc
            /\ cout' = Announce(qname) \o <<r.line>>
            /\ errorFound' = (errorFound \/ r.failed)
            /\ results' = <<r.result>> \o results
    /\ UNCHANGED <<config, exitStatus, priorFailure, assertVars>>

\* the common tail of both runners: record the outcome, or let the
\* exception leave the runner (and main, which has no handler)
Finish(group, name, qname, f, us) ==
    LET r == RunCallable(NewResult(group, name), qname, f, us, useAscii, showPerf) IN
    /\ calls' = calls + 1
    /\ lastCall' = [group |-> group, name |-> name, thrown |-> f, returned |-> ~r.escapes]
    /\ IF r.escapes
       THEN /\ pc' = "terminated"
            /\ cout' = Announce(qname)
            /\ UNCHANGED <<results, errorFound>>
       ELSE /\ pc' = pc
            /\ cout' = Announce(qname) \o <<r.line>>
            /\ errorFound' = (errorFound \/ r.failed)
            /\ results' = Append(results, r.result)
    /\ UNCHANGED <<config, exitStatus, priorFailure, assertVars>>

\* UTEST_FUNC(a): details::testFunc(#a, test_a, errorFound)
testFunc(name, f, us) ==
    /\ pc = "running"
    /\ calls < MaxTests
    /\ Finish("", name, name, f, us)

\* UTEST_FUNC2(a, b): details::testFunc2(#a, #b, test_a_b, errorFound)
testFunc2(group, name, f, us) ==
    /\ pc = "running"
    /\ calls < MaxTests
    /\ Finish(group, name, group \o "::" \o name, f, us)

\* ------------------------------------------------------------------ prolog
\* a prolog that clears the store but keeps the flag of the previous run
Prolog_mut ==
    /\ pc \in {"start", "running", "done"}
    /\ results' = << >>
    /\ pc' = "running"
    /\ calls' = 0
    /\ lastCall' = NoCall
    /\ exitStatus' = -1
    /\ cout' = << >>
    /\ priorFailure' = (priorFailure \/ \E i \in 1..Len(results) : ~results[i].passed)
    /\ UNCHANGED <<config, errorFound, assertVars>>

\* UTEST_PROLOG(): bool errorFound = false; getTestResults().clear()
Prolog ==
    /\ pc \in {"start", "running", "done"}
    /\ errorFound' = FALSE
    /\ results' = << >>
    /\ pc' = "running"
    /\ calls' = 0
    /\ lastCall' = NoCall
    /\ exitStatus' = -1
    /\ cout' = << >>
    /\ priorFailure' = (priorFailure \/ \E i \in 1..Len(results) : ~results[i].passed)
    /\ UNCHANGED <<config, assertVars>>

\* ----------------------------------------------------------------- setters
\* the setters are plain assignments to the statics; a caller uses them
\* before or during a run
Alive == pc \in {"start", "running"}

\* UTEST_ALLOW_EMPTY_TESTS()
AllowEmptyTests ==
    /\ Alive
    /\ allowEmpty' = TRUE
    /\ cout' = << >>
    /\ UNCHANGED <<results, errorFound, useAscii, showPerf, verbose, pc,
                   exitStatus, calls, lastCall, priorFailure, assertVars>>

\* UTEST_USE_ASCII_CHECKMARKS() / UTEST_USE_UNICODE_CHECKMARKS()
UseAsciiCheckmarks(b) ==
    /\ Alive
    /\ useAscii' = b
    /\ cout' = << >>
    /\ UNCHANGED <<results, errorFound, allowEmpty, showPerf, verbose, pc,
                   exitStatus, calls, lastCall, priorFailure, assertVars>>

\* UTEST_SHOW_PERFORMANCE() / UTEST_HIDE_PERFORMANCE()
ShowPerformance(b) ==
    /\ Alive
    /\ showPerf' = b
    /\ cout' = << >>
    /\ UNCHANGED <<results, errorFound, allowEmpty, useAscii, verbose, pc,
                   exitStatus, calls, lastCall, priorFailure, assertVars>>

\* a setter that also clears the any-failure flag
EnableVerboseMode_mut ==
    /\ Alive
    /\ verbose' = TRUE
    /\ errorFound' = FALSE
    /\ cout' = << >>
    /\ UNCHANGED <<results, allowEmpty, useAscii, showPerf, pc,
                   exitStatus, calls, lastCall, priorFailure, assertVars>>

\* UTEST_ENABLE_VERBOSE_MODE()
EnableVerboseMode ==
    /\ Alive
    /\ verbose' = TRUE
    /\ cout' = << >>
    /\ UNCHANGED <<results, errorFound, allowEmpty, useAscii, showPerf, pc,
                   exitStatus, calls, lastCall, priorFailure, assertVars>>

\* ------------------------------------------------------------------ epilog
\* std::string operator< : compare the common prefix byte by byte, then
\* the lengths
RECURSIVE SeqLess(_, _)
SeqLess(a, b) ==
    IF b = << >> THEN FALSE
    ELSE IF a = << >> THEN TRUE
    ELSE IF Head(a) # Head(b) THEN Head(a) < Head(b)
    ELSE SeqLess(Tail(a), Tail(b))

StrLess(s, t) == SeqLess(Bytes(s), Bytes(t))

\* a map iterated from its largest key down (comparator reversed)
RECURSIVE MapOrder_mut(_)
MapOrder_mut(keys) ==
    IF keys = {} THEN << >>
    ELSE LET k == CHOOSE x \in keys : \A y \in keys \ {x} : StrLess(y, x)
         IN <<k>> \o MapOrder_mut(keys \ {k})

\* the keys of a std::map<std::string, ...> in iteration order
RECURSIVE MapOrder(_)
MapOrder(keys) ==
    IF keys = {} THEN << >>
    ELSE LET k == CHOOSE x \in keys : \A y \in keys \ {x} : StrLess(x, y)
         IN <<k>> \o MapOrder(keys \ {k})

\* the records of one group, in store order (push_back of &result)
GroupRecords(rs, g) == SelectSeq(rs, LAMBDA r : r.group = g)

\* grouping that opens a new block for every record instead of looking the
\* group up
groupedResults_mut(rs) ==
    [k \in 1..Len(rs) |-> [first |-> rs[k].group, second |-> <<rs[k]>>]]

\* groupedResults after the first loop of UTEST_EPILOG: the sequence of
\* (first, second) pairs the second loop iterates over
groupedResults(rs) ==
    LET order == MapOrder({rs[i].group : i \in 1..Len(rs)})
    IN [k \in 1..Len(order) |->
          [first |-> order[k], second |-> GroupRecords(rs, order[k])]]

\* a summary line drawn with the marks the test's own runner used
ResultLine_mut(r, ascii, perf) ==
    IF r.passed
    THEN successMark(shown.ascii) \o " " \o r.name \o PerfSuffix(shown.perf, r.elapsedTime)
    ELSE failMark(shown.ascii) \o " " \o r.name \o " - " \o r.error
           \o PerfSuffix(shown.perf, r.elapsedTime)

\* the line UTEST_EPILOG prints for one record
ResultLine(r, ascii, perf) ==
    IF r.passed
    THEN successMark(ascii) \o " " \o r.name \o PerfSuffix(perf, r.elapsedTime)
    ELSE failMark(ascii) \o " " \o r.name \o " - " \o r.error
           \o PerfSuffix(perf, r.elapsedTime)

ResultLines(rs, ascii, perf) ==
    [i \in 1..Len(rs) |-> ResultLine(rs[i], ascii, perf)]

\* "\n" << group.first << ":\n" for a named group, nothing for ""
GroupHeader(g) == IF g # "" THEN <<"", g \o ":">> ELSE << >>

\* what the second loop prints
RECURSIVE GroupLines(_, _, _)
GroupLines(groups, ascii, perf) ==
    IF groups = << >> THEN << >>
    ELSE GroupHeader(Head(groups).first)
           \o ResultLines(Head(groups).second, ascii, perf)
           \o GroupLines(Tail(groups), ascii, perf)

\* a count of the groups that hold a passed record, not of the records
CountPassed_mut(groups) ==
    Cardinality({k \in 1..Len(groups) :
                   \E i \in 1..Len(groups[k].second) : groups[k].second[i].passed})

\* passed / failed as counted by the second loop
CountPassed(groups) ==
    Cardinality({<<k, i>> \in (1..Len(groups)) \X (1..MaxTests) :
                   i <= Len(groups[k].second) /\ groups[k].second[i].passed})

CountFailed(groups) ==
    Cardinality({<<k, i>> \in (1..Len(groups)) \X (1..MaxTests) :
                   i <= Len(groups[k].second) /\ ~groups[k].second[i].passed})

\* totalTime += result.elapsedTime over the store
RECURSIVE TotalTime(_)
TotalTime(rs) == IF rs = << >> THEN 0 ELSE Head(rs).elapsedTime + TotalTime(Tail(rs))

Rule == "======================================"

\* an empty run that fails whatever allowEmptyTests says
EmptyVerdict_mut(allow) == EXIT_FAILURE

\* the branch taken when results.empty()
EmptyVerdict(allow) == IF allow THEN EXIT_SUCCESS ELSE EXIT_FAILURE

\* the two exit statuses swapped
Verdict_mut(flag, failed) == IF flag \/ failed > 0 THEN EXIT_SUCCESS ELSE EXIT_FAILURE

\* if (errorFound || failed > 0) FAILURE else SUCCESS
Verdict(flag, failed) == IF flag \/ failed > 0 THEN EXIT_FAILURE ELSE EXIT_SUCCESS

\* UTEST_EPILOG()
Epilog ==
    /\ pc = "running"
    /\ pc' = "done"
    /\ IF results = << >>
       THEN /\ exitStatus' = EmptyVerdict(allowEmpty)
            /\ cout' = <<"", Rule, "Test Summary:", Rule, "No tests were run!", Rule,
                         IF EmptyVerdict(allowEmpty) = EXIT_SUCCESS
                         THEN "SUCCESS (empty tests allowed)" ELSE "FAILURE">>
       ELSE LET groups == groupedResults(results)
                passed == CountPassed(groups)
                failed == CountFailed(groups)
                status == Verdict(errorFound, failed)
            IN /\ exitStatus' = status
               /\ cout' = <<"", Rule, "Test Summary:", Rule>>
                    \o GroupLines(groups, useAscii, showPerf)
                    \o <<"--------------------------------------",
                         "Total: " \o ToString(passed + failed) \o " tests, "
                           \o ToString(passed) \o " passed " \o successMark(useAscii)
                           \o ", " \o ToString(failed) \o " failed " \o failMark(useAscii)
                           \o (IF showPerf
                               THEN " (Total time: " \o FixedMs(TotalTime(results)) \o "ms)"
                               ELSE ""),
                         Rule,
                         IF status = EXIT_FAILURE THEN "FAILURE" ELSE "SUCCESS">>
    /\ UNCHANGED <<results, errorFound, config, calls, lastCall, priorFailure, assertVars>>

\* -------------------------------------------------------------- assertions
\* __FILE__, __LINE__ and __PRETTY_FUNCTION__ where a macro is expanded
Sites ==
    { [file |-> "t.cpp", line |-> 42, function |-> "void test_x()"],
      [file |-> "u.cpp", line |-> 7,  function |-> "void test_y()"] }

\* throw utest::AssertionException(ss.str(), __FILE__, __LINE__, __PRETTY_FUNCTION__)
ThrowAt(site, message) ==
    AssertionException4(message, site.file, site.line, site.function)

\* details::convertToString, the overload for numeric types: std::to_string
convertToString(value) == ToString(value)

\* ---- static types
\* The static type of an operand as decltype(x) gives it: a category and
\* whether it is an lvalue reference, which it is when x is an lvalue other
\* than a plain name: v[0], *pp, (p), a string literal. The categories stand
\* for int, std::string, std::nullptr_t, const char*, void (*)(), int S::*,
\* const char[N] and void ().
GuardCats == {"int", "string", "nullptr_t", "pointer", "funcptr", "memptr",
              "array", "function"}

\* further categories, for bool, char, signed char, wchar_t, double, a class
\* with operator<< and a class without
ScalarCats == {"bool", "char", "signed char", "wchar_t", "double",
               "Streamable", "Opaque"}

Type(cat, ref) == [cat |-> cat, ref |-> ref]

GuardTypes == {Type(c, r) : c \in GuardCats, r \in BOOLEAN}
ScalarTypes == {Type(c, FALSE) : c \in ScalarCats}

\* std::is_pointer, std::is_array, std::is_member_pointer, std::is_function:
\* all false for a reference type
is_pointer(T) == ~T.ref /\ T.cat \in {"pointer", "funcptr"}
is_array(T) == ~T.ref /\ T.cat = "array"
is_member_pointer(T) == ~T.ref /\ T.cat = "memptr"
is_function(T) == ~T.ref /\ T.cat = "function"

\* std::remove_pointer: const char* gives const char, void (*)() gives void ()
remove_pointer(T) ==
    IF is_pointer(T)
    THEN Type(IF T.cat = "funcptr" THEN "function" ELSE "char", FALSE)
    ELSE T

\* std::decay: the reference is removed, an array becomes a pointer to its
\* element, a function a pointer to it
decay(T) ==
    Type(CASE T.cat = "array" -> "pointer"
           [] T.cat = "function" -> "funcptr"
           [] OTHER -> T.cat,
         FALSE)

\* details::is_any_pointer_or_array<T>::value
is_any_pointer_or_array(T) ==
    \/ is_pointer(T)
    \/ is_array(T)
    \/ is_pointer(decay(T))
    \/ is_member_pointer(T)
    \/ (is_pointer(T) /\ is_function(remove_pointer(T)))

\* details::check_not_pointer_types<T, U>(): TRUE when its static_assert holds
check_not_pointer_types(T, U) ==
    ~is_any_pointer_or_array(T) /\ ~is_any_pointer_or_array(U)

\* details::is_null_pointer<T>: remove_cv leaves a reference as it is
is_null_pointer(T) == ~T.ref /\ T.cat = "nullptr_t"

\* details::is_valid_pointer<T>::value
is_valid_pointer(T) == is_pointer(T) \/ is_member_pointer(T) \/ is_null_pointer(T)

\* details::check_only_pointer_types<T, U>(): TRUE when its static_assert holds
check_only_pointer_types(T, U) == is_valid_pointer(T) /\ is_valid_pointer(U)

\* ( x ) != ( y ) and ( x ) == ( y ) are well-formed: the operands, decayed as
\* operands of a comparison are, have the same type, or are a std::string and
\* a const char*, or a null pointer constant and a pointer of some kind
Comparable(T, U) ==
    LET a == decay(T).cat
        b == decay(U).cat
    IN \/ a = b
       \/ {a, b} = {"string", "pointer"}
       \/ /\ "nullptr_t" \in {a, b}
          /\ {a, b} \cap {"pointer", "funcptr", "memptr"} # {}

\* reinterpret_cast<const void*>( ptr ) is well-formed: from an integer or a
\* pointer, not from std::nullptr_t, a pointer to member or a class
Castable(T) == decay(T).cat \in {"int", "pointer", "funcptr"}

\* ---- values
\* An operand: its static type and what it holds: a number (an integer, a
\* character code, a double in millionths, an address held by a pointer), a
\* text (the characters of a std::string, of the C-string a pointer points
\* to, the name of a StreamableClass) and, where it is printed, the address
\* of the object itself.
Value(T, num, text, addr) == [type |-> T, num |-> num, text |-> text, addr |-> addr]

IntValue(n) == Value(Type("int", FALSE), n, "", 0)

\* the C-strings in memory, by address: two copies of "hello", one "world",
\* one "ell" and an empty one
CStrings == {4096, 8192, 12288, 20480, 24576}
CStringAt(a) ==
    CASE a = 12288 -> "world"
      [] a = 20480 -> "ell"
      [] a = 24576 -> ""
      [] OTHER -> "hello"

\* the contents of the std::string operands
Texts == {"", "hello", "world", "ell", "ELL"}

\* the values the modelled calls take their operands from
ValuesOf(T) ==
    CASE T.cat = "int" -> {Value(T, n, "", 0) : n \in {5, 6}}
      [] T.cat = "string" -> {Value(T, 0, t, 0) : t \in Texts}
      [] T.cat = "nullptr_t" -> {Value(T, 0, "", 28704)}
      [] T.cat = "pointer" -> {Value(T, a, CStringAt(a), 0) : a \in CStrings}
      [] T.cat = "array" -> {Value(T, 8192, CStringAt(8192), 0)}
      [] T.cat \in {"funcptr", "function"} -> {Value(T, 16384, "", 0)}
      [] T.cat = "memptr" -> {Value(T, 1, "", 0)}
      [] T.cat = "bool" -> {Value(T, n, "", 0) : n \in {0, 1}}
      [] T.cat \in {"char", "signed char", "wchar_t"} -> {Value(T, n, "", 0) : n \in {65, 66}}
      [] T.cat = "double" -> {Value(T, n, "", 0) : n \in {3141590, 2710000}}
      [] T.cat = "Streamable" -> {Value(T, 0, t, 0) : t \in {"test", "prod"}}
      [] T.cat = "Opaque" -> {Value(T, 123, "", 28672), Value(T, 124, "", 28688)}

\* ( x ) == ( y ): std::string compares characters, also against a const
\* char*; pointers compare the addresses they hold
Eq(x, y) ==
    LET a == decay(x.type).cat
        b == decay(y.type).cat
    IN IF "string" \in {a, b}
       THEN x.text = y.text
       ELSE x.num = y.num /\ (a = "Streamable" => x.text = y.text)

\* ---- printing of values
HexDigit(d) == <<"0", "1", "2", "3", "4", "5", "6", "7", "8", "9",
                 "a", "b", "c", "d", "e", "f">>[d + 1]

RECURSIVE Hex(_)
Hex(n) == IF n < 16 THEN HexDigit(n) ELSE Hex(n \div 16) \o HexDigit(n % 16)

\* ss << p for a const void* p
PointerText(p) == IF p = 0 THEN "0" ELSE "0x" \o Hex(p)

\* the character with the given code
Chr(code) ==
    CASE code = 65 -> "A"
      [] code = 66 -> "B"
      [] OTHER -> "?"

\* std::to_string of a double, given in millionths: "%f"
Pad6(n) == IF n < 10 THEN "00000" \o ToString(n)
           ELSE IF n < 100 THEN "0000" \o ToString(n)
           ELSE IF n < 1000 THEN "000" \o ToString(n)
           ELSE IF n < 10000 THEN "00" \o ToString(n)
           ELSE IF n < 100000 THEN "0" \o ToString(n) ELSE ToString(n)

Fixed6(n) == ToString(n \div 1000000) \o "." \o Pad6(n % 1000000)

\* typeid(T).name()
TypeName(cat) ==
    CASE cat = "nullptr_t" -> "Dn"
      [] cat = "Opaque" -> "9TestClass"
      [] OTHER -> cat

\* ---- details::convertToString
\* std::is_arithmetic
is_arithmetic(cat) == cat \in {"int", "bool", "char", "signed char", "wchar_t", "double"}

\* details::is_numeric<T>::value (char16_t and char32_t are not among the
\* categories)
is_numeric(cat) == is_arithmetic(cat) /\ cat \notin {"bool", "char", "wchar_t"}

\* details::is_streamable<T>::value: ss << value is well-formed. In C++11,
\* the standard the repository builds with, there is no operator<< for
\* std::nullptr_t.
is_streamable(cat) == cat \notin {"nullptr_t", "Opaque"}

\* the seven overloads: three templates taking const T&, four functions
TemplateOverloads == {"numeric", "streamable", "fallback"}
FunctionOverloads == {"string", "cstr", "bool", "char"}
Overloads == TemplateOverloads \cup FunctionOverloads

\* rank of the implicit conversion of an argument of the category to the
\* overload's parameter: 0 exact match (an array to a pointer included),
\* 2 conversion, 3 user-defined conversion, NoMatch not viable
NoMatch == 9

\* std::string::npos, as a position no text has
npos == -1

Rank(o, cat) ==
    CASE o = "numeric" -> IF is_numeric(cat) THEN 0 ELSE NoMatch
      [] o = "streamable" ->
           IF ~is_numeric(cat) /\ is_streamable(cat) THEN 0 ELSE NoMatch
      [] o = "fallback" ->
           IF ~is_numeric(cat) /\ ~is_streamable(cat) THEN 0 ELSE NoMatch
      [] o = "string" ->
           IF cat = "string" THEN 0
           ELSE IF cat \in {"pointer", "array", "nullptr_t"} THEN 3 ELSE NoMatch
      [] o = "cstr" ->
           IF cat \in {"pointer", "array"} THEN 0
           ELSE IF cat = "nullptr_t" THEN 2 ELSE NoMatch
      [] o = "bool" ->
           IF cat = "bool" THEN 0
           ELSE IF is_arithmetic(cat)
                   \/ cat \in {"pointer", "array", "funcptr", "function", "memptr"}
                THEN 2 ELSE NoMatch
      [] o = "char" ->
           IF cat = "char" THEN 0
           ELSE IF is_arithmetic(cat) THEN 2 ELSE NoMatch

Candidates(cat) == {o \in Overloads : Rank(o, cat) < NoMatch}

\* overload resolution without the preference for a function over a template
Better_mut(o1, o2, cat) == Rank(o1, cat) < Rank(o2, cat)

\* o1 is a better match than o2: a better conversion, or the same and o1 is
\* not a template while o2 is
Better(o1, o2, cat) ==
    \/ Rank(o1, cat) < Rank(o2, cat)
    \/ /\ Rank(o1, cat) = Rank(o2, cat)
       /\ o1 \in FunctionOverloads
       /\ o2 \in TemplateOverloads

\* the overloads overload resolution can select: those better than every
\* other candidate (none: the call is ambiguous)
Selected(cat) ==
    {o \in Candidates(cat) : \A o2 \in Candidates(cat) \ {o} : Better(o, o2, cat)}

\* ss << value for the categories that have an operator<<
StreamText(v) ==
    CASE v.type.cat \in {"string", "pointer", "array"} -> v.text
      [] v.type.cat = "Streamable" -> "StreamableClass(" \o v.text \o ")"
      [] v.type.cat = "char" -> Chr(v.num)
      [] v.type.cat \in {"funcptr", "function", "memptr"} ->
           IF v.num # 0 THEN "1" ELSE "0"
      [] v.type.cat = "double" -> Fixed6(v.num)
      [] OTHER -> ToString(v.num)

\* the body of the overload o applied to v
Render(o, v) ==
    CASE o = "numeric" ->
           IF v.type.cat = "double" THEN Fixed6(v.num) ELSE convertToString(v.num)
      [] o = "streamable" -> StreamText(v)
      [] o = "fallback" ->
           "[" \o TypeName(v.type.cat) \o " at " \o PointerText(v.addr) \o "]"
      [] o = "string" -> v.text
      [] o = "cstr" -> v.text
      [] o = "bool" -> IF v.num # 0 THEN "true" ELSE "false"
      [] o = "char" -> Chr(v.num)

\* UTEST_TO_STRING( x ): utest::details::convertToString( ( x ) ), the
\* overload being the one overload resolution selects for x's type
UTEST_TO_STRING(v) == Render(CHOOSE o \in Selected(v.type.cat) : TRUE, v)

\* UTEST_ASSERT_TRUE( condition ); text is #condition
UTEST_ASSERT_TRUE(condition, text, site) ==
    IF ~condition
    THEN ThrowAt(site, "condition is false: '" \o text \o "'")
    ELSE NoException

UTEST_ASSERT_TRUE_MSG(condition, msg, site) ==
    IF ~condition
    THEN ThrowAt(site, "assertion failed, '" \o msg \o "'")
    ELSE NoException

UTEST_ASSERT_FALSE(condition, text, site) ==
    IF condition
    THEN ThrowAt(site, "condition is true: '" \o text \o "'")
    ELSE NoException

UTEST_ASSERT_FALSE_MSG(condition, msg, site) ==
    IF condition
    THEN ThrowAt(site, "assertion failed, '" \o msg \o "'")
    ELSE NoException

\* UTEST_ASSERT_EQUALS whose message leaves the second operand out
UTEST_ASSERT_EQUALS_mut(x, y, site) ==
    IF ~Eq(x, y)
    THEN ThrowAt(site, "Assertion failed: " \o UTEST_TO_STRING(x) \o " != ")
    ELSE NoException

\* the generic equality macros; x and y are values of any type the build
\* lets through
UTEST_ASSERT_EQUALS(x, y, site) ==
    IF ~Eq(x, y)
    THEN ThrowAt(site, "Assertion failed: " \o UTEST_TO_STRING(x)
                         \o " != " \o UTEST_TO_STRING(y))
    ELSE NoException

UTEST_ASSERT_EQUALS_MSG(x, y, msg, site) ==
    IF ~Eq(x, y)
    THEN ThrowAt(site, "Assertion failed, '" \o msg \o "': " \o UTEST_TO_STRING(x)
                         \o " != " \o UTEST_TO_STRING(y))
    ELSE NoException

UTEST_ASSERT_NOT_EQUALS(x, y, site) ==
    IF Eq(x, y)
    THEN ThrowAt(site, "Assertion failed: " \o UTEST_TO_STRING(x)
                         \o " == " \o UTEST_TO_STRING(y))
    ELSE NoException

UTEST_ASSERT_NOT_EQUALS_MSG(x, y, msg, site) ==
    IF Eq(x, y)
    THEN ThrowAt(site, "Assertion failed, '" \o msg \o "': " \o UTEST_TO_STRING(x)
                         \o " == " \o UTEST_TO_STRING(y))
    ELSE NoException

\* the pointer equality macros; ptr1 and ptr2 are values holding an address
UTEST_ASSERT_PTR_EQUALS(ptr1, ptr2, site) ==
    IF ~Eq(ptr1, ptr2)
    THEN ThrowAt(site, "Pointer assertion failed: " \o PointerText(ptr1.num)
                         \o " != " \o PointerText(ptr2.num))
    ELSE NoException

UTEST_ASSERT_PTR_EQUALS_MSG(ptr1, ptr2, msg, site) ==
    IF ~Eq(ptr1, ptr2)
    THEN ThrowAt(site, "Pointer assertion failed, '" \o msg \o "': "
                         \o PointerText(ptr1.num) \o " != " \o PointerText(ptr2.num))
    ELSE NoException

UTEST_ASSERT_PTR_NOT_EQUALS(ptr1, ptr2, site) ==
    IF Eq(ptr1, ptr2)
    THEN ThrowAt(site, "Pointer assertion failed: " \o PointerText(ptr1.num)
                         \o " == " \o PointerText(ptr2.num))
    ELSE NoException

UTEST_ASSERT_PTR_NOT_EQUALS_MSG(ptr1, ptr2, msg, site) ==
    IF Eq(ptr1, ptr2)
    THEN ThrowAt(site, "Pointer assertion failed, '" \o msg \o "': "
                         \o PointerText(ptr1.num) \o " == " \o PointerText(ptr2.num))
    ELSE NoException

\* std::string( x ) for a std::string, a const char* or a string literal
std_string(v) == v.text

\* UTEST_ASSERT_STR_EQUALS that compares the addresses of two C-strings
UTEST_ASSERT_STR_EQUALS_mut(x, y, site) ==
    IF (IF x.type.cat = "string" \/ y.type.cat = "string"
        THEN std_string(x) # std_string(y) ELSE x.num # y.num)
    THEN ThrowAt(site, "String assertion failed: \"" \o std_string(x)
                         \o "\" != \"" \o std_string(y) \o "\"")
    ELSE NoException

\* the string equality macros
UTEST_ASSERT_STR_EQUALS(x, y, site) ==
    IF std_string(x) # std_string(y)
    THEN ThrowAt(site, "String assertion failed: \"" \o std_string(x)
                         \o "\" != \"" \o std_string(y) \o "\"")
    ELSE NoException

UTEST_ASSERT_STR_NOT_EQUALS(x, y, site) ==
    IF std_string(x) = std_string(y)
    THEN ThrowAt(site, "String assertion failed: \"" \o std_string(x)
                         \o "\" == \"" \o std_string(y) \o "\"")
    ELSE NoException

UTEST_ASSERT_STR_EQUALS_MSG(x, y, msg, site) ==
    IF std_string(x) # std_string(y)
    THEN ThrowAt(site, "String assertion failed, '" \o msg \o "': \"" \o std_string(x)
                         \o "\" != \"" \o std_string(y) \o "\"")
    ELSE NoException

UTEST_ASSERT_STR_NOT_EQUALS_MSG(x, y, msg, site) ==
    IF std_string(x) = std_string(y)
    THEN ThrowAt(site, "String assertion failed, '" \o msg \o "': \"" \o std_string(x)
                         \o "\" == \"" \o std_string(y) \o "\"")
    ELSE NoException

\* details::to_string_for_str_assert: the overloads for std::string, const
\* char* (a string literal too) and the template for every other type
\* ---- wide text
\* std::wstring and const wchar_t* operands: wide holds the wchar_t codes;
\* wchar_t is a signed 32-bit type in this build, so a code may be negative
WideCats == {"wstring", "wchar_t*"}

WideValue(T, num, codes) == [type |-> T, num |-> num, text |-> "", addr |-> 0, wide |-> codes]

\* the char with the given value, for the letters, the digits, the space
\* and the question mark
CharOf(byte) ==
    CASE byte \in 65..90 -> SubSeq("ABCDEFGHIJKLMNOPQRSTUVWXYZ", byte - 64, byte - 64)
      [] byte \in 97..122 -> SubSeq("abcdefghijklmnopqrstuvwxyz", byte - 96, byte - 96)
      [] byte \in 48..57 -> SubSeq("0123456789", byte - 47, byte - 47)
      [] byte = 32 -> " "
      [] byte = 63 -> "?"

\* static_cast<char>(wc): the low eight bits
static_cast_char(wc) == wc % 256

\* to_string_for_str_assert(const std::wstring&): the loop over the
\* wchar_t of s
RECURSIVE to_string_wide(_)
to_string_wide(codes) ==
    IF codes = << >> THEN ""
    ELSE (IF Head(codes) <= 127 THEN CharOf(static_cast_char(Head(codes))) ELSE "?")
           \o to_string_wide(Tail(codes))

to_string_for_str_assert(v) ==
    CASE v.type.cat = "string" -> v.text
      [] v.type.cat \in {"pointer", "array"} -> v.text
      [] v.type.cat = "wstring" -> to_string_wide(v.wide)
      [] v.type.cat = "wchar_t*" -> IF v.num = 0 THEN "" ELSE to_string_wide(v.wide)
      [] OTHER -> UTEST_TO_STRING(v)

\* std::string::find(n): the first position at which n occurs in s, npos
\* when there is none
find(s, n) ==
    LET at == {i \in 0..(Len(s) - Len(n)) : SubSeq(s, i + 1, i + Len(n)) = n}
    IN IF at = {} THEN npos ELSE CHOOSE i \in at : \A j \in at : i <= j

\* str_contains for which an empty text occurs nowhere
str_contains_mut(str, substr) ==
    /\ to_string_for_str_assert(substr) # ""
    /\ find(to_string_for_str_assert(str), to_string_for_str_assert(substr)) # npos

\* details::str_contains
str_contains(str, substr) ==
    find(to_string_for_str_assert(str), to_string_for_str_assert(substr)) # npos

\* the substring macros
UTEST_ASSERT_STR_CONTAINS(a_string, a_substr, site) ==
    IF ~str_contains(a_string, a_substr)
    THEN ThrowAt(site, "String assertion failed: \"" \o to_string_for_str_assert(a_string)
                         \o "\" does not contain \""
                         \o to_string_for_str_assert(a_substr) \o "\"")
    ELSE NoException

UTEST_ASSERT_STR_NOT_CONTAINS(a_string, a_substr, site) ==
    IF str_contains(a_string, a_substr)
    THEN ThrowAt(site, "String assertion failed: \"" \o to_string_for_str_assert(a_string)
                         \o "\" contains \""
                         \o to_string_for_str_assert(a_substr) \o "\"")
    ELSE NoException

UTEST_ASSERT_STR_CONTAINS_MSG(a_string, a_substr, a_msg, site) ==
    IF ~str_contains(a_string, a_substr)
    THEN ThrowAt(site, "String assertion failed, '" \o a_msg \o "': \""
                         \o to_string_for_str_assert(a_string)
                         \o "\" does not contain \""
                         \o to_string_for_str_assert(a_substr) \o "\"")
    ELSE NoException

UTEST_ASSERT_STR_NOT_CONTAINS_MSG(a_string, a_substr, a_msg, site) ==
    IF str_contains(a_string, a_substr)
    THEN ThrowAt(site, "String assertion failed, '" \o a_msg \o "': \""
                         \o to_string_for_str_assert(a_string)
                         \o "\" contains \""
                         \o to_string_for_str_assert(a_substr) \o "\"")
    ELSE NoException

\* the ordering macros on operands of type int
UTEST_ASSERT_GT(x, y, site) ==
    IF ~(x > y)
    THEN ThrowAt(site, "Assertion failed: " \o convertToString(x)
                         \o " is not greater than " \o convertToString(y))
    ELSE NoException

UTEST_ASSERT_GTE(x, y, site) ==
    IF ~(x >= y)
    THEN ThrowAt(site, "Assertion failed: " \o convertToString(x)
                         \o " is not greater than or equal to " \o convertToString(y))
    ELSE NoException

UTEST_ASSERT_LT(x, y, site) ==
    IF ~(x < y)
    THEN ThrowAt(site, "Assertion failed: " \o convertToString(x)
                         \o " is not less than " \o convertToString(y))
    ELSE NoException

UTEST_ASSERT_LTE(x, y, site) ==
    IF ~(x <= y)
    THEN ThrowAt(site, "Assertion failed: " \o convertToString(x)
                         \o " is not less than or equal to " \o convertToString(y))
    ELSE NoException

\* (the text of UTEST_ASSERT_GT_MSG says "greater than or equal to")
UTEST_ASSERT_GT_MSG(x, y, msg, site) ==
    IF ~(x > y)
    THEN ThrowAt(site, "Assertion failed, '" \o msg \o "': " \o convertToString(x)
                         \o " is not greater than or equal to " \o convertToString(y))
    ELSE NoException

\* a _MSG variant that tests x > y where the plain one tests x >= y
UTEST_ASSERT_GTE_MSG_mut(x, y, msg, site) ==
    IF ~(x > y)
    THEN ThrowAt(site, "Assertion failed, '" \o msg \o "': " \o convertToString(x)
                         \o " is not greater than or equal to " \o convertToString(y))
    ELSE NoException

UTEST_ASSERT_GTE_MSG(x, y, msg, site) ==
    IF ~(x >= y)
    THEN ThrowAt(site, "Assertion failed, '" \o msg \o "': " \o convertToString(x)
                         \o " is not greater than or equal to " \o convertToString(y))
    ELSE NoException

UTEST_ASSERT_LT_MSG(x, y, msg, site) ==
    IF ~(x < y)
    THEN ThrowAt(site, "Assertion failed, '" \o msg \o "': " \o convertToString(x)
                         \o " is not less than " \o convertToString(y))
    ELSE NoException

UTEST_ASSERT_LTE_MSG(x, y, msg, site) ==
    IF ~(x <= y)
    THEN ThrowAt(site, "Assertion failed, '" \o msg \o "': " \o convertToString(x)
                         \o " is not less than or equal to " \o convertToString(y))
    ELSE NoException

\* the null checks; ptr is an address, 0 being nullptr, text is #ptr
UTEST_ASSERT_NULL(ptr, text, site) ==
    IF ptr # 0
    THEN ThrowAt(site, "Assertion failed, pointer is not null: " \o text)
    ELSE NoException

UTEST_ASSERT_NOT_NULL(ptr, text, site) ==
    IF ptr = 0
    THEN ThrowAt(site, "Assertion failed, pointer is null: '" \o text \o "'")
    ELSE NoException

UTEST_ASSERT_NULL_MSG(ptr, text, msg, site) ==
    IF ptr # 0
    THEN ThrowAt(site, "Assertion failed, '" \o msg \o "': pointer is not null: " \o text)
    ELSE NoException

UTEST_ASSERT_NOT_NULL_MSG(ptr, text, msg, site) ==
    IF ptr = 0
    THEN ThrowAt(site, "Assertion failed, '" \o msg \o "': pointer is null: '"
                         \o text \o "'")
    ELSE NoException

\* AssertThrows without its catch (...): a thrown value that is not a
\* std::exception leaves the function
AssertThrows_mut(f, msg) ==
    CASE f.type = "none" ->
           IF msg # ""
           THEN AssertionException1("Expected exception was not thrown: " \o msg)
           ELSE AssertionException1("Expected exception was not thrown")
      [] f.type = "other" -> f
      [] OTHER -> NoException

\* details::AssertThrows(assertion, msg); f is what assertion() does.
\* catch (const std::exception&) also catches an AssertionException.
AssertThrows(f, msg) ==
    LET throwFound == f.type # "none" IN
    IF ~throwFound
    THEN IF msg # ""
         THEN AssertionException1("Expected exception was not thrown: " \o msg)
         ELSE AssertionException1("Expected exception was not thrown")
    ELSE NoException

\* AssertDoesNotThrow that leaves e.what() out of the message
AssertDoesNotThrow_mut(f, msg) ==
    CASE f.type = "none" -> NoException
      [] f.type \in {"AssertionException", "std::exception"} ->
           IF msg # ""
           THEN AssertionException1("Unexpected exception thrown: " \o msg)
           ELSE AssertionException1("Unexpected exception thrown")
      [] OTHER ->
           IF msg # ""
           THEN AssertionException1("Unexpected unknown exception thrown: " \o msg)
           ELSE AssertionException1("Unexpected unknown exception thrown")

\* details::AssertDoesNotThrow(assertion, msg)
AssertDoesNotThrow(f, msg) ==
    CASE f.type = "none" -> NoException
      [] f.type \in {"AssertionException", "std::exception"} ->
           IF msg # ""
           THEN AssertionException1("Unexpected exception thrown: " \o msg
                                      \o " - " \o f.what)
           ELSE AssertionException1("Unexpected exception thrown: " \o f.what)
      [] OTHER ->
           IF msg # ""
           THEN AssertionException1("Unexpected unknown exception thrown: " \o msg)
           ELSE AssertionException1("Unexpected unknown exception thrown")

\* UTEST_ASSERT_THROWS(F), UTEST_ASSERT_THROWS_MSG(F, MSG): the macros pass
\* F (and MSG) on and nothing else
UTEST_ASSERT_THROWS(f, site) == AssertThrows(f, "")
UTEST_ASSERT_THROWS_MSG(f, msg, site) == AssertThrows(f, msg)

\* UTEST_ASSERT_DOES_NOT_THROW(F), UTEST_ASSERT_DOES_NOT_THROW_MSG(F, MSG)
UTEST_ASSERT_DOES_NOT_THROW(f, site) == AssertDoesNotThrow(f, "")
UTEST_ASSERT_DOES_NOT_THROW_MSG(f, msg, site) == AssertDoesNotThrow(f, msg)

\* ---- one assertion, from its expansion to its return or its throw
ConditionMacros == {"UTEST_ASSERT_TRUE", "UTEST_ASSERT_TRUE_MSG",
                    "UTEST_ASSERT_FALSE", "UTEST_ASSERT_FALSE_MSG"}
CompareMacros == {"UTEST_ASSERT_EQUALS", "UTEST_ASSERT_EQUALS_MSG",
                  "UTEST_ASSERT_NOT_EQUALS", "UTEST_ASSERT_NOT_EQUALS_MSG",
                  "UTEST_ASSERT_GT", "UTEST_ASSERT_GT_MSG",
                  "UTEST_ASSERT_GTE", "UTEST_ASSERT_GTE_MSG",
                  "UTEST_ASSERT_LT", "UTEST_ASSERT_LT_MSG",
                  "UTEST_ASSERT_LTE", "UTEST_ASSERT_LTE_MSG"}
NullMacros == {"UTEST_ASSERT_NULL", "UTEST_ASSERT_NULL_MSG",
               "UTEST_ASSERT_NOT_NULL", "UTEST_ASSERT_NOT_NULL_MSG"}
ThrowMacros == {"UTEST_ASSERT_THROWS", "UTEST_ASSERT_THROWS_MSG",
                "UTEST_ASSERT_DOES_NOT_THROW", "UTEST_ASSERT_DOES_NOT_THROW_MSG"}
PointerMacros == {"UTEST_ASSERT_PTR_EQUALS", "UTEST_ASSERT_PTR_EQUALS_MSG",
                  "UTEST_ASSERT_PTR_NOT_EQUALS", "UTEST_ASSERT_PTR_NOT_EQUALS_MSG"}

StringMacros == {"UTEST_ASSERT_STR_EQUALS", "UTEST_ASSERT_STR_EQUALS_MSG",
                 "UTEST_ASSERT_STR_NOT_EQUALS", "UTEST_ASSERT_STR_NOT_EQUALS_MSG",
                 "UTEST_ASSERT_STR_CONTAINS", "UTEST_ASSERT_STR_CONTAINS_MSG",
                 "UTEST_ASSERT_STR_NOT_CONTAINS", "UTEST_ASSERT_STR_NOT_CONTAINS_MSG"}

\* the generic equality and inequality macros, a part of CompareMacros
EqualityMacros == {"UTEST_ASSERT_EQUALS", "UTEST_ASSERT_EQUALS_MSG",
                   "UTEST_ASSERT_NOT_EQUALS", "UTEST_ASSERT_NOT_EQUALS_MSG"}

\* operands of the modelled calls
Operands == {5, 6}
Pointers == {0, 4096}

\* the message the _MSG calls are given
CallerMessage == "Custom error message"

\* an expansion: the macro, its operands (those the macro does not take
\* keep their default) and the place of the expansion
NoAssertion ==
    [macro |-> "", condition |-> TRUE, x |-> IntValue(0), y |-> IntValue(0), ptr |-> 0,
     f |-> NoException, text |-> "", msg |-> "", site |-> [file |-> "", line |-> 0, function |-> ""]]

\* the operands of the string macros: std::string objects, const char*
\* variables and a string literal
StringOperands ==
    ValuesOf(Type("string", FALSE)) \cup ValuesOf(Type("pointer", FALSE))
        \cup ValuesOf(Type("array", TRUE))

\* where the calls on operands of every pair of types are expanded
TypedSite == CHOOSE s \in Sites : s.line = 42

AssertionCalls ==
    UNION {
      {[NoAssertion EXCEPT !.macro = m, !.condition = c, !.text = "c", !.msg = CallerMessage, !.site = s] :
          m \in ConditionMacros, c \in BOOLEAN, s \in Sites},
      {[NoAssertion EXCEPT !.macro = m, !.x = IntValue(a), !.y = IntValue(b),
                           !.msg = CallerMessage, !.site = s] :
          m \in CompareMacros, a \in Operands, b \in Operands, s \in Sites},
      UNION {{[NoAssertion EXCEPT !.macro = m, !.x = a, !.y = b, !.msg = CallerMessage, !.site = s] :
                 m \in EqualityMacros, a \in ValuesOf(T), b \in ValuesOf(T), s \in Sites} :
             T \in ScalarTypes},
      UNION {{[NoAssertion EXCEPT !.macro = m, !.x = a, !.y = b, !.msg = CallerMessage,
                                  !.site = TypedSite] :
                 m \in EqualityMacros \cup PointerMacros,
                 a \in ValuesOf(T), b \in ValuesOf(U)} :
             T \in GuardTypes, U \in GuardTypes},
      {[NoAssertion EXCEPT !.macro = m, !.x = a, !.y = b, !.msg = CallerMessage, !.site = s] :
          m \in StringMacros, a \in StringOperands, b \in StringOperands, s \in Sites},
      {[NoAssertion EXCEPT !.macro = m, !.ptr = q, !.text = "p", !.msg = CallerMessage, !.site = s] :
          m \in NullMacros, q \in Pointers, s \in Sites},
      {[NoAssertion EXCEPT !.macro = m, !.f = b, !.msg = CallerMessage, !.site = s] :
          m \in ThrowMacros, b \in Behaviours, s \in Sites} }

\* what the expansion c raises
Expand(c) ==
    CASE c.macro = "UTEST_ASSERT_TRUE" -> UTEST_ASSERT_TRUE(c.condition, c.text, c.site)
      [] c.macro = "UTEST_ASSERT_TRUE_MSG" -> UTEST_ASSERT_TRUE_MSG(c.condition, c.msg, c.site)
      [] c.macro = "UTEST_ASSERT_FALSE" -> UTEST_ASSERT_FALSE(c.condition, c.text, c.site)
      [] c.macro = "UTEST_ASSERT_FALSE_MSG" -> UTEST_ASSERT_FALSE_MSG(c.condition, c.msg, c.site)
      [] c.macro = "UTEST_ASSERT_EQUALS" -> UTEST_ASSERT_EQUALS(c.x, c.y, c.site)
      [] c.macro = "UTEST_ASSERT_EQUALS_MSG" -> UTEST_ASSERT_EQUALS_MSG(c.x, c.y, c.msg, c.site)
      [] c.macro = "UTEST_ASSERT_NOT_EQUALS" -> UTEST_ASSERT_NOT_EQUALS(c.x, c.y, c.site)
      [] c.macro = "UTEST_ASSERT_NOT_EQUALS_MSG" ->
           UTEST_ASSERT_NOT_EQUALS_MSG(c.x, c.y, c.msg, c.site)
      [] c.macro = "UTEST_ASSERT_GT" -> UTEST_ASSERT_GT(c.x.num, c.y.num, c.site)
      [] c.macro = "UTEST_ASSERT_GT_MSG" -> UTEST_ASSERT_GT_MSG(c.x.num, c.y.num, c.msg, c.site)
      [] c.macro = "UTEST_ASSERT_GTE" -> UTEST_ASSERT_GTE(c.x.num, c.y.num, c.site)
      [] c.macro = "UTEST_ASSERT_GTE_MSG" -> UTEST_ASSERT_GTE_MSG(c.x.num, c.y.num, c.msg, c.site)
      [] c.macro = "UTEST_ASSERT_LT" -> UTEST_ASSERT_LT(c.x.num, c.y.num, c.site)
      [] c.macro = "UTEST_ASSERT_LT_MSG" -> UTEST_ASSERT_LT_MSG(c.x.num, c.y.num, c.msg, c.site)
      [] c.macro = "UTEST_ASSERT_LTE" -> UTEST_ASSERT_LTE(c.x.num, c.y.num, c.site)
      [] c.macro = "UTEST_ASSERT_LTE_MSG" -> UTEST_ASSERT_LTE_MSG(c.x.num, c.y.num, c.msg, c.site)
      [] c.macro = "UTEST_ASSERT_NULL" -> UTEST_ASSERT_NULL(c.ptr, c.text, c.site)
      [] c.macro = "UTEST_ASSERT_NULL_MSG" -> UTEST_ASSERT_NULL_MSG(c.ptr, c.text, c.msg, c.site)
      [] c.macro = "UTEST_ASSERT_NOT_NULL" -> UTEST_ASSERT_NOT_NULL(c.ptr, c.text, c.site)
      [] c.macro = "UTEST_ASSERT_NOT_NULL_MSG" ->
           UTEST_ASSERT_NOT_NULL_MSG(c.ptr, c.text, c.msg, c.site)
      [] c.macro = "UTEST_ASSERT_PTR_EQUALS" -> UTEST_ASSERT_PTR_EQUALS(c.x, c.y, c.site)
      [] c.macro = "UTEST_ASSERT_PTR_EQUALS_MSG" ->
           UTEST_ASSERT_PTR_EQUALS_MSG(c.x, c.y, c.msg, c.site)
      [] c.macro = "UTEST_ASSERT_PTR_NOT_EQUALS" ->
           UTEST_ASSERT_PTR_NOT_EQUALS(c.x, c.y, c.site)
      [] c.macro = "UTEST_ASSERT_PTR_NOT_EQUALS_MSG" ->
           UTEST_ASSERT_PTR_NOT_EQUALS_MSG(c.x, c.y, c.msg, c.site)
      [] c.macro = "UTEST_ASSERT_STR_EQUALS" -> UTEST_ASSERT_STR_EQUALS(c.x, c.y, c.site)
      [] c.macro = "UTEST_ASSERT_STR_EQUALS_MSG" ->
           UTEST_ASSERT_STR_EQUALS_MSG(c.x, c.y, c.msg, c.site)
      [] c.macro = "UTEST_ASSERT_STR_NOT_EQUALS" ->
           UTEST_ASSERT_STR_NOT_EQUALS(c.x, c.y, c.site)
      [] c.macro = "UTEST_ASSERT_STR_NOT_EQUALS_MSG" ->
           UTEST_ASSERT_STR_NOT_EQUALS_MSG(c.x, c.y, c.msg, c.site)
      [] c.macro = "UTEST_ASSERT_STR_CONTAINS" ->
           UTEST_ASSERT_STR_CONTAINS(c.x, c.y, c.site)
      [] c.macro = "UTEST_ASSERT_STR_CONTAINS_MSG" ->
           UTEST_ASSERT_STR_CONTAINS_MSG(c.x, c.y, c.msg, c.site)
      [] c.macro = "UTEST_ASSERT_STR_NOT_CONTAINS" ->
           UTEST_ASSERT_STR_NOT_CONTAINS(c.x, c.y, c.site)
      [] c.macro = "UTEST_ASSERT_STR_NOT_CONTAINS_MSG" ->
           UTEST_ASSERT_STR_NOT_CONTAINS_MSG(c.x, c.y, c.msg, c.site)
      [] c.macro = "UTEST_ASSERT_THROWS" -> UTEST_ASSERT_THROWS(c.f, c.site)
      [] c.macro = "UTEST_ASSERT_THROWS_MSG" -> UTEST_ASSERT_THROWS_MSG(c.f, c.msg, c.site)
      [] c.macro = "UTEST_ASSERT_DOES_NOT_THROW" -> UTEST_ASSERT_DOES_NOT_THROW(c.f, c.site)
      [] c.macro = "UTEST_ASSERT_DOES_NOT_THROW_MSG" ->
           UTEST_ASSERT_DOES_NOT_THROW_MSG(c.f, c.msg, c.site)

\* how many times the expansion c calls the callable it is given:
\* AssertThrows and AssertDoesNotThrow have one assertion() each, in the try
\* block, and no retry
Invocations(c) == IF c.macro \in ThrowMacros THEN 1 ELSE 0

\* UTEST_TO_STRING( x ) is well-formed: overload resolution finds one best
\* convertToString
Resolves(T) == Cardinality(Selected(T.cat)) = 1

\* the translation unit holding the expansion c builds: the static_assert of
\* the guard the macro calls, if it calls one, holds and the statements of the
\* macro are well-formed for the operands' types
Builds(c) ==
    LET T == c.x.type
        U == c.y.type
    IN CASE c.macro \in {"UTEST_ASSERT_EQUALS", "UTEST_ASSERT_EQUALS_MSG"} ->
              /\ check_not_pointer_types(T, U)
              /\ Comparable(T, U) /\ Resolves(T) /\ Resolves(U)
         [] c.macro \in {"UTEST_ASSERT_NOT_EQUALS", "UTEST_ASSERT_NOT_EQUALS_MSG"} ->
              Comparable(T, U) /\ Resolves(T) /\ Resolves(U)
         [] c.macro \in {"UTEST_ASSERT_PTR_EQUALS", "UTEST_ASSERT_PTR_EQUALS_MSG"} ->
              /\ check_only_pointer_types(T, U)
              /\ Comparable(T, U) /\ Castable(T) /\ Castable(U)
         [] c.macro \in {"UTEST_ASSERT_PTR_NOT_EQUALS", "UTEST_ASSERT_PTR_NOT_EQUALS_MSG"} ->
              Comparable(T, U) /\ Castable(T) /\ Castable(U)
         [] c.macro \in {"UTEST_ASSERT_STR_EQUALS", "UTEST_ASSERT_STR_EQUALS_MSG",
                         "UTEST_ASSERT_STR_NOT_EQUALS", "UTEST_ASSERT_STR_NOT_EQUALS_MSG"} ->
              T.cat \notin WideCats /\ U.cat \notin WideCats
         [] OTHER -> TRUE

\* an expansion that reports a passing assertion on the output
Evaluate_mut(macros) ==
    /\ apc = "called"
    /\ call.macro \in macros
    /\ IF Builds(call)
       THEN /\ raised' = Expand(call)
            /\ invoked' = invoked + Invocations(call)
            /\ apc' = IF Expand(call).type = "none" THEN "returned" ELSE "raised"
            /\ cout' = IF Expand(call).type = "none"
                       THEN Append(cout, "assertion passed") ELSE cout
       ELSE /\ apc' = "rejected"
            /\ UNCHANGED <<raised, invoked, cout>>
    /\ UNCHANGED <<call, results, errorFound, config, pc, exitStatus, calls, lastCall,
                   priorFailure, shown>>

\* the expansion is compiled and, if the build accepts it, runs: it returns,
\* or it throws
Evaluate(macros) ==
    /\ apc = "called"
    /\ call.macro \in macros
    /\ IF Builds(call)
       THEN /\ raised' = Expand(call)
            /\ invoked' = invoked + Invocations(call)
            /\ apc' = IF Expand(call).type = "none" THEN "returned" ELSE "raised"
       ELSE /\ apc' = "rejected"
            /\ UNCHANGED <<raised, invoked>>
    /\ UNCHANGED <<call, runnerVars>>

AssertCondition == Evaluate(ConditionMacros)
AssertCompare == Evaluate(CompareMacros)
AssertNull == Evaluate(NullMacros)
AssertThrowing == Evaluate(ThrowMacros)
AssertPointer == Evaluate(PointerMacros)
AssertString == Evaluate(StringMacros)

\* ----------------------------------------------------------- specification
\* the statics' initial values; no prolog has run
RunnerInit ==
    /\ results = << >>
    /\ errorFound = FALSE
    /\ allowEmpty = FALSE
    /\ useAscii = TRUE
    /\ showPerf = TRUE
    /\ verbose = FALSE
    /\ cout = << >>
    /\ pc = "start"
    /\ exitStatus = -1
    /\ calls = 0
    /\ lastCall = NoCall
    /\ priorFailure = FALSE
    /\ shown = Marks

Init ==
    /\ RunnerInit
    /\ call = NoAssertion
    /\ apc = "idle"
    /\ raised = NoException
    /\ invoked = 0

Next ==
    \/ Prolog /\ UNCHANGED shown
    \/ \E f \in Behaviours, us \in Durations :
          testFunc(TestName(calls + 1), f, us) /\ UNCHANGED shown
    \/ \E g \in GroupLabels, f \in Behaviours, us \in Durations :
          testFunc2(g, TestName(calls + 1), f, us) /\ UNCHANGED shown
    \/ Epilog /\ UNCHANGED shown
    \/ AllowEmptyTests /\ UNCHANGED shown
    \/ \E b \in BOOLEAN : UseAsciiCheckmarks(b) /\ UNCHANGED shown
    \/ \E b \in BOOLEAN : ShowPerformance(b) /\ UNCHANGED shown
    \/ EnableVerboseMode /\ UNCHANGED shown

Spec == Init /\ [][Next]_vars

\* the same run with the history of what each runner read: a callable that
\* returns or fails an assertion, one group, and every setter between the
\* runners and before the epilog
ConfigBehaviours == {f \in Behaviours : f.type \in {"none", "AssertionException"}}

NextConfig ==
    \/ Prolog /\ UNCHANGED shown
    \/ \E f \in ConfigBehaviours, us \in Durations :
          testFunc(TestName(calls + 1), f, us) /\ shown' = Marks
    \/ \E f \in ConfigBehaviours, us \in Durations :
          testFunc2("A", TestName(calls + 1), f, us) /\ shown' = Marks
    \/ Epilog /\ UNCHANGED shown
    \/ AllowEmptyTests /\ UNCHANGED shown
    \/ \E b \in BOOLEAN : UseAsciiCheckmarks(b) /\ UNCHANGED shown
    \/ \E b \in BOOLEAN : ShowPerformance(b) /\ UNCHANGED shown
    \/ EnableVerboseMode /\ UNCHANGED shown

SpecConfig == Init /\ [][NextConfig]_vars

\* the string assertions on a wide text and a narrow one
WideCodes == {65, 63, 233, 8364, -191}

WideTexts ==
    {<< >>} \cup {<<a>> : a \in WideCodes} \cup {<<a, b>> : a \in WideCodes, b \in WideCodes}

WideOperands ==
    {WideValue(Type("wstring", FALSE), 0, w) : w \in WideTexts}
      \cup {WideValue(Type("wchar_t*", FALSE), 4096, w) : w \in WideTexts}
      \cup {WideValue(Type("wchar_t*", FALSE), 0, << >>)}

NarrowOperands == {Value(Type("string", FALSE), 0, t, 0) : t \in {"", "A", "?"}}

WideCalls ==
    {[NoAssertion EXCEPT !.macro = m, !.x = a, !.y = b, !.msg = CallerMessage,
                         !.site = TypedSite] :
        m \in StringMacros, a \in WideOperands, b \in NarrowOperands}

InitWide ==
    /\ RunnerInit
    /\ call \in WideCalls
    /\ apc = "called"
    /\ raised = NoException
    /\ invoked = 0

NextWide == AssertString

SpecWide == InitWide /\ [][NextWide]_vars

\* tests whose body is one assertion: a condition, an equality of 5 and an
\* int, or a does-not-throw around a callable that returns or fails an assertion
\* of its own
BodyMacros == {"UTEST_ASSERT_TRUE", "UTEST_ASSERT_EQUALS",
               "UTEST_ASSERT_DOES_NOT_THROW", "UTEST_ASSERT_DOES_NOT_THROW_MSG"}

BodyCalls ==
    {c \in AssertionCalls :
       /\ c.macro \in BodyMacros
       /\ c.site = TypedSite
       /\ c.x \in {IntValue(0), IntValue(5)} /\ c.y.type = Type("int", FALSE)
       /\ c.f \in ConfigBehaviours}

\* void test_a() { UTEST_ASSERT_...(...); }: the body of the next test
\* reaches its assertion
EnterTest(c) ==
    /\ pc = "running"
    /\ calls < MaxTests
    /\ apc # "called"
    /\ call' = c
    /\ apc' = "called"
    /\ raised' = NoException
    /\ invoked' = 0
    /\ UNCHANGED runnerVars

\* the body has run: what the assertion raised is what the callable does
BodyDone == apc \in {"returned", "raised"}

NextBody ==
    \/ Prolog /\ UNCHANGED shown
    \/ \E c \in BodyCalls : EnterTest(c)
    \/ AssertCondition
    \/ AssertCompare
    \/ AssertThrowing
    \/ \E us \in Durations :
          BodyDone /\ testFunc(TestName(calls + 1), raised, us) /\ UNCHANGED shown
    \/ \E us \in Durations :
          BodyDone /\ testFunc2("A", TestName(calls + 1), raised, us) /\ UNCHANGED shown
    \/ Epilog /\ UNCHANGED shown
    \/ \E b \in BOOLEAN : UseAsciiCheckmarks(b) /\ UNCHANGED shown
    \/ EnableVerboseMode /\ UNCHANGED shown

SpecBody == Init /\ [][NextBody]_vars

\* one assertion on its own: the operands are drawn, the macro is expanded
InitAssert ==
    /\ RunnerInit
    /\ call \in AssertionCalls
    /\ apc = "called"
    /\ raised = NoException
    /\ invoked = 0

NextAssert ==
    \/ AssertCondition
    \/ AssertCompare
    \/ AssertNull
    \/ AssertThrowing
    \/ AssertPointer
    \/ AssertString

SpecAssert == InitAssert /\ [][NextAssert]_vars

\* ================================================================== claims
\* records of the store that failed
Failed(rs) == {i \in 1..Len(rs) : ~rs[i].passed}

\* C1: every invocation of testFunc / testFunc2, whatever the callable does,
\* appends exactly one record, whose passed flag is true iff no exception
\* escaped the callable.
C1_OneResultPerInvocation ==
    /\ Len(results) = calls
    /\ calls > 0 => (results[calls].passed <=> lastCall.thrown.type = "none")

\* C2: with a non-empty store, epilog returns EXIT_FAILURE if errorFound is
\* set or some record failed and EXIT_SUCCESS otherwise; it returns success
\* exactly when every test executed since prolog passed.
C2_VerdictNonEmpty ==
    (pc = "done" /\ results # << >>) =>
        /\ exitStatus \in {EXIT_SUCCESS, EXIT_FAILURE}
        /\ exitStatus = EXIT_FAILURE <=> (errorFound \/ Failed(results) # {})
        /\ exitStatus = EXIT_SUCCESS <=>
              (Len(results) = calls /\ \A i \in 1..Len(results) : results[i].passed)

C2_Witness ==
    /\ pc = "done"
    /\ Len(results) >= 2
    /\ results[1].passed /\ ~results[2].passed
    /\ exitStatus = EXIT_FAILURE

\* C3: epilog on an empty store returns failure when allowEmptyTests is
\* unset and success when it is set, whatever the other flags are.
C3_VerdictEmpty ==
    (pc = "done" /\ results = << >>) =>
        exitStatus = (IF allowEmpty THEN EXIT_SUCCESS ELSE EXIT_FAILURE)

C3_Witness ==
    /\ pc = "done" /\ results = << >>
    /\ allowEmpty /\ ~useAscii /\ ~showPerf /\ verbose
    /\ exitStatus = EXIT_SUCCESS

\* C4: a test whose callable raised (a Failure Signal or anything else)
\* never aborts the run: the runner returns to its caller, which goes on.
C4_FailingTestNeverAborts ==
    (calls > 0 /\ lastCall.thrown.type # "none") =>
        (lastCall.returned /\ pc # "terminated")

\* C5: an escaping exception that is not a Failure Signal is recorded as a
\* failure whose diagnostic is the exception's message, or carries the
\* "unexpected exception" qualifier when there is no message.
C5_UnexpectedExceptionRecorded ==
    (calls > 0 /\ lastCall.thrown.type \in {"std::exception", "other"}) =>
        /\ Len(results) = calls
        /\ ~results[calls].passed
        /\ IF lastCall.thrown.type = "std::exception" /\ lastCall.thrown.what # ""
           THEN results[calls].error = lastCall.thrown.what
           ELSE Len(results[calls].error) >= Len("unexpected exception")

\* C6: a Failure Signal escaping the callable is recorded with passed =
\* false and error = "<message> at <file>:<line> in <function>"; a record
\* that passed has an empty error.
C6_FailureSignalRecorded ==
    /\ (calls > 0 /\ lastCall.thrown.type = "AssertionException") =>
          /\ Len(results) = calls
          /\ ~results[calls].passed
          /\ results[calls].error =
                lastCall.thrown.what \o " at " \o lastCall.thrown.file \o ":"
                  \o ToString(lastCall.thrown.line) \o " in "
                  \o lastCall.thrown.function
    /\ \A i \in 1..Len(results) : results[i].passed => results[i].error = ""

C6_Witness ==
    /\ calls = 2 /\ Len(results) = 2
    /\ results[1].passed /\ results[1].error = ""
    /\ lastCall.thrown.type = "AssertionException"
    /\ results[2].error = "condition is false: 'x' at t.cpp:42 in void test_x()"

GroupsOf(rs) == {rs[i].group : i \in 1..Len(rs)}

\* the positions in cout of the header of group g
HeaderAt(g) == {i \in 1..Len(cout) : cout[i] = g \o ":"}

\* the positions in cout of the summary lines of the records of group g
LinesOf(g) ==
    {i \in 1..Len(cout) :
        \E k \in 1..Len(results) :
            /\ results[k].group = g
            /\ cout[i] = ResultLine(results[k], useAscii, showPerf)}

AllHeaders == UNION {HeaderAt(g) : g \in GroupLabels}

\* C8: in the report the records of one named group form one contiguous
\* block under exactly one header naming the group, whatever the invocation
\* order; ungrouped records are printed without a header.
C8_GroupsContiguous ==
    (pc = "done" /\ results # << >>) =>
        /\ \A g \in GroupsOf(results) \ {""} :
              /\ Cardinality(HeaderAt(g)) = 1
              /\ LET h == CHOOSE i \in HeaderAt(g) : TRUE
                     n == Len(GroupRecords(results, g))
                 IN LinesOf(g) = (h + 1)..(h + n)
        /\ HeaderAt("") = {}
        /\ LinesOf("") # {} =>
              LET lo == CHOOSE i \in LinesOf("") : \A j \in LinesOf("") : i <= j
                  n  == Len(GroupRecords(results, ""))
              IN /\ LinesOf("") = lo..(lo + n - 1)
                 /\ lo - 1 \notin AllHeaders
                 /\ \A g \in GroupLabels : lo - 1 \notin LinesOf(g)

C8_Witness ==
    /\ pc = "done"
    /\ Len(results) = 3
    /\ results[1].group = "B" /\ results[2].group = "" /\ results[3].group = "B"
    /\ Cardinality(HeaderAt("B")) = 1
    /\ Cardinality(LinesOf("B")) = 2

\* the position in cout where the block of group g starts
BlockStart(g) ==
    IF g = "" THEN CHOOSE i \in LinesOf("") : \A j \in LinesOf("") : i <= j
    ELSE CHOOSE i \in HeaderAt(g) : TRUE

\* the position in the store of the first record of group g
FirstSeen(g) ==
    CHOOSE i \in 1..Len(results) :
        results[i].group = g /\ \A j \in 1..(i - 1) : results[j].group # g

\* C9 (as stated): the blocks are printed in first-seen order of the groups.
C9_FirstSeenOrder ==
    (pc = "done" /\ results # << >>) =>
        \A g1, g2 \in GroupsOf(results) :
            FirstSeen(g1) < FirstSeen(g2) => BlockStart(g1) < BlockStart(g2)

\* C9 (amended): the blocks are printed in ascending order of the group
\* labels compared byte by byte (a proper prefix first), so the ungrouped
\* block, whose label is empty, comes first.
C9_LabelOrder ==
    (pc = "done" /\ results # << >>) =>
        \A g1, g2 \in GroupsOf(results) :
            SeqLess(Bytes(g1), Bytes(g2)) => BlockStart(g1) < BlockStart(g2)

C9_Witness ==
    /\ pc = "done"
    /\ Len(results) = 3
    /\ results[1].group = "B" /\ results[2].group = "A" /\ results[3].group = ""
    /\ BlockStart("") < BlockStart("A")
    /\ BlockStart("A") < BlockStart("B")

\* C10: every assertion kind, the throws and does-not-throw helpers
\* included, raises a Failure Signal whose file, line and function are
\* those of the place of the assertion, never the "unknown" / 0 sentinel.
C10_LocationIsCallSite ==
    apc = "raised" =>
        /\ raised.type = "AssertionException"
        /\ raised.file = call.site.file
        /\ raised.line = call.site.line
        /\ raised.function = call.site.function
        /\ ~(raised.file = "unknown" /\ raised.line = 0 /\ raised.function = "unknown")

\* the text n occurs in the text s
Within(n, s) == \E i \in 0..(Len(s) - Len(n)) : SubSeq(s, i + 1, i + Len(n)) = n

\* C11: the throws assertion calls its callable exactly once and returns
\* normally iff that call raised an exception of any kind (a std::exception,
\* a thrown value of another type, a nested AssertionException); what it
\* caught is never raised again; if the callable returned, it raises an
\* AssertionException saying that the expected exception was not thrown.
C11_ThrowsIffRaised ==
    (call.macro \in {"UTEST_ASSERT_THROWS", "UTEST_ASSERT_THROWS_MSG"}
       /\ apc \in {"returned", "raised"}) =>
        /\ invoked = 1
        /\ apc = "returned" <=> call.f.type # "none"
        /\ apc = "returned" => raised = NoException
        /\ apc = "raised" =>
              /\ raised.type = "AssertionException"
              /\ Within("Expected exception was not thrown", raised.what)

C11_Witness ==
    /\ call.macro = "UTEST_ASSERT_THROWS"
    /\ call.f = OtherThrown
    /\ apc = "returned"
    /\ invoked = 1

\* the text s ends with the text n
EndsWith(s, n) == Len(n) <= Len(s) /\ SubSeq(s, Len(s) - Len(n) + 1, Len(s)) = n

DoesNotThrowDone ==
    /\ call.macro \in {"UTEST_ASSERT_DOES_NOT_THROW", "UTEST_ASSERT_DOES_NOT_THROW_MSG"}
    /\ apc \in {"returned", "raised"}

\* C12 as stated: the does-not-throw assertion returns normally iff the
\* callable raised nothing; otherwise it raises an AssertionException whose
\* message embeds the caught exception's message, or contains "unknown
\* exception" whenever the caught exception carries no message (a thrown value
\* that is not a std::exception, or a std::exception whose what() is empty).
C12_UnknownWhenNoMessage ==
    DoesNotThrowDone =>
        /\ apc = "returned" <=> call.f.type = "none"
        /\ apc = "raised" =>
              /\ raised.type = "AssertionException"
              /\ IF call.f.type = "other" \/ call.f.what = ""
                 THEN Within("unknown exception", raised.what)
                 ELSE Within(call.f.what, raised.what)

\* C12 amended: the does-not-throw assertion returns normally iff the callable
\* raised nothing; otherwise it raises an AssertionException whose message
\* contains "unknown exception" when the caught value is not a std::exception,
\* and ends with the caught std::exception's what() otherwise, also when that
\* what() is empty, in which case "unknown exception" does not appear.
C12_UnknownOnlyForNonStd ==
    DoesNotThrowDone =>
        /\ invoked = 1
        /\ apc = "returned" <=> call.f.type = "none"
        /\ apc = "returned" => raised = NoException
        /\ apc = "raised" =>
              /\ raised.type = "AssertionException"
              /\ IF call.f.type = "other"
                 THEN Within("unknown exception", raised.what)
                 ELSE /\ EndsWith(raised.what, call.f.what)
                      /\ Within("Unexpected exception thrown: ", raised.what)
                      /\ call.f.what = "" => ~Within("unknown exception", raised.what)

C12_Witness ==
    /\ call.macro = "UTEST_ASSERT_DOES_NOT_THROW"
    /\ call.f = StdException("")
    /\ apc = "raised"
    /\ raised.what = "Unexpected exception thrown: "

\* the operand types the generic equality must not take: pointers, arrays
\* (string literals included), pointers to members, pointers to functions
\* (and the names of functions, which become such pointers)
IsPointerOrArray(T) == T.cat \in {"pointer", "array", "memptr", "funcptr", "function"}

\* the operand types the pointer equality takes: object pointers, function
\* pointers, member pointers and std::nullptr_t
IsPointerLike(T) == T.cat \in {"pointer", "funcptr", "memptr", "nullptr_t"}

\* the expansion has been through the build, and its operands are of types
\* that can be compared with each other at all
Compiled(macros) ==
    /\ call.macro \in macros
    /\ apc # "called"
    /\ Comparable(call.x.type, call.y.type)

\* C13: UTEST_ASSERT_EQUALS and UTEST_ASSERT_EQUALS_MSG are rejected by the
\* build for every pair of operand types of which at least one is a pointer,
\* an array, a member pointer or a function pointer, and accepted when
\* neither is; a rejected use is never executed.
C13_EqualsRejectsPointers ==
    Compiled({"UTEST_ASSERT_EQUALS", "UTEST_ASSERT_EQUALS_MSG"}) =>
        /\ apc = "rejected" <=>
              (IsPointerOrArray(call.x.type) \/ IsPointerOrArray(call.y.type))
        /\ apc = "rejected" => (raised = NoException /\ invoked = 0)

\* C14: UTEST_ASSERT_PTR_EQUALS and UTEST_ASSERT_PTR_EQUALS_MSG are rejected
\* by the build for every pair of operand types of which at least one is not
\* pointer-like, and accepted whenever both are pointer-like.
C14_PtrEqualsTakesPointerLike ==
    Compiled({"UTEST_ASSERT_PTR_EQUALS", "UTEST_ASSERT_PTR_EQUALS_MSG"}) =>
        (apc = "rejected" <=>
            ~(IsPointerLike(call.x.type) /\ IsPointerLike(call.y.type)))

\* C15: the inequality macros have the guards of the equality macros:
\* UTEST_ASSERT_NOT_EQUALS(_MSG) is rejected by the build when an operand is
\* of a pointer or array type, UTEST_ASSERT_PTR_NOT_EQUALS(_MSG) when an
\* operand is not pointer-like.
C15_InequalityGuards ==
    /\ Compiled({"UTEST_ASSERT_NOT_EQUALS", "UTEST_ASSERT_NOT_EQUALS_MSG"}) =>
          ((IsPointerOrArray(call.x.type) \/ IsPointerOrArray(call.y.type))
              => apc = "rejected")
    /\ Compiled({"UTEST_ASSERT_PTR_NOT_EQUALS", "UTEST_ASSERT_PTR_NOT_EQUALS_MSG"}) =>
          (~(IsPointerLike(call.x.type) /\ IsPointerLike(call.y.type))
              => apc = "rejected")

\* C16: for all values a and b of a type the generic equality accepts (not a
\* pointer, comparable), UTEST_ASSERT_EQUALS(_MSG) returns normally when a
\* equals b and raises an AssertionException when they differ, whose message
\* contains the convertToString text of a and that of b ("5" and "6" for the
\* operands 5 and 6).
C16_EqualsComparesValues ==
    (/\ call.macro \in {"UTEST_ASSERT_EQUALS", "UTEST_ASSERT_EQUALS_MSG"}
     /\ apc \in {"returned", "raised"}
     /\ ~IsPointerOrArray(call.x.type) /\ ~IsPointerOrArray(call.y.type)) =>
        /\ apc = "returned" <=> (call.x.num = call.y.num /\ call.x.text = call.y.text)
        /\ apc = "returned" => raised = NoException
        /\ apc = "raised" =>
              /\ raised.type = "AssertionException"
              /\ Within(UTEST_TO_STRING(call.x) \o " != " \o UTEST_TO_STRING(call.y),
                        raised.what)
              /\ (call.x = IntValue(5) /\ call.y = IntValue(6)) =>
                    (Within("5", raised.what) /\ Within("6", raised.what))

C16_Witness ==
    /\ call.macro = "UTEST_ASSERT_EQUALS"
    /\ call.x = IntValue(5) /\ call.y = IntValue(6)
    /\ apc = "raised"
    /\ raised.what = "Assertion failed: 5 != 6"

\* C17: the string equality assertion compares contents, not addresses, for
\* any mix of std::string and C-string operands, string literals included: it
\* returns normally iff the two texts have the same characters, and otherwise
\* raises an AssertionException whose message contains both texts.
C17_StrEqualsComparesContents ==
    (call.macro \in {"UTEST_ASSERT_STR_EQUALS", "UTEST_ASSERT_STR_EQUALS_MSG"}
       /\ apc # "called") =>
        /\ apc \in {"returned", "raised"}
        /\ apc = "returned" <=> call.x.text = call.y.text
        /\ apc = "returned" => raised = NoException
        /\ apc = "raised" =>
              /\ raised.type = "AssertionException"
              /\ Within("\"" \o call.x.text \o "\" != \"" \o call.y.text \o "\"",
                        raised.what)

\* two C-strings with the same characters at different addresses
C17_Witness ==
    /\ call.macro = "UTEST_ASSERT_STR_EQUALS"
    /\ call.x.type.cat = "pointer" /\ call.y.type.cat = "pointer"
    /\ call.x.num # call.y.num
    /\ call.x.text = "hello" /\ call.y.text = "hello"
    /\ apc = "returned"

\* C18: the substring assertion returns normally iff n occurs in s, compared
\* case-sensitively, and the not-contains assertion iff it does not; an empty
\* n occurs in every s, the empty one included, and a non-empty n never
\* occurs in an empty s.
C18_ContainsIsSubstring ==
    (call.macro \in {"UTEST_ASSERT_STR_CONTAINS", "UTEST_ASSERT_STR_CONTAINS_MSG",
                     "UTEST_ASSERT_STR_NOT_CONTAINS", "UTEST_ASSERT_STR_NOT_CONTAINS_MSG"}
       /\ apc # "called") =>
        LET s == call.x.text
            n == call.y.text
            positive == call.macro \in {"UTEST_ASSERT_STR_CONTAINS",
                                        "UTEST_ASSERT_STR_CONTAINS_MSG"}
            passes == IF positive THEN apc = "returned" ELSE apc = "raised"
        IN /\ apc \in {"returned", "raised"}
           /\ passes <=> Within(n, s)
           /\ n = "" => passes
           /\ (n # "" /\ s = "") => ~passes
           /\ apc = "raised" => raised.type = "AssertionException"

C18_Witness ==
    /\ call.macro = "UTEST_ASSERT_STR_CONTAINS"
    /\ call.x.text = "" /\ call.y.text = ""
    /\ apc = "returned"

\* the strategy C19 names for a category: the exact types first (std::string
\* and C-strings, bool, char), then the numeric types other than bool and the
\* character types char and wchar_t, then the types with a stream output,
\* then the rest
StrategyOf(cat) ==
    IF cat \in {"string", "pointer", "array"} THEN "verbatim"
    ELSE IF cat = "bool" THEN "true/false"
    ELSE IF cat = "char" THEN "one character"
    ELSE IF cat \in {"int", "signed char", "double"} THEN "decimal"
    ELSE IF cat \in {"wchar_t", "funcptr", "function", "memptr", "Streamable"}
         THEN "stream"
    ELSE "opaque"

\* the text the strategy gives for the value v
TextBy(strategy, v) ==
    CASE strategy = "verbatim" -> v.text
      [] strategy = "true/false" -> IF v.num = 0 THEN "false" ELSE "true"
      [] strategy = "one character" -> Chr(v.num)
      [] strategy = "decimal" ->
           IF v.type.cat = "double" THEN Fixed6(v.num) ELSE ToString(v.num)
      [] strategy = "stream" ->
           IF v.type.cat = "Streamable" THEN "StreamableClass(" \o v.text \o ")"
           ELSE IF v.type.cat = "wchar_t" THEN ToString(v.num)
           ELSE "1"
      [] strategy = "opaque" ->
           "[" \o TypeName(v.type.cat) \o " at 0x" \o Hex(v.addr) \o "]"

StartsWith(s, n) == Len(n) <= Len(s) /\ SubSeq(s, 1, Len(n)) = n

\* the line is drawn for an outcome under the marks m: it opens with the
\* success or failure mark of m.ascii, and closes with a time exactly when
\* m.perf is set
DrawnWith(line, passed, m) ==
    /\ StartsWith(line, IF passed
                        THEN (IF m.ascii THEN "[OK] " ELSE "<U+2713> ")
                        ELSE (IF m.ascii THEN "[FAIL] " ELSE "<U+2717> "))
    /\ EndsWith(line, "ms)") <=> m.perf

\* the lines of the summary that open with a mark of either kind
MarkedLines ==
    {k \in 1..Len(cout) :
       \E m \in {"[OK] ", "[FAIL] ", "<U+2713> ", "<U+2717> "} : StartsWith(cout[k], m)}

\* C20: the configuration is read when a line is printed.  The result line a
\* runner prints at once is drawn with the check-mark style and the timing
\* switch as they were when that test ran; the summary of the epilog draws
\* one line per record, every one of them with the values current when the
\* epilog runs, whatever they were when the tests ran.
C20_ConfigReadWhenPrinted ==
    /\ (pc = "running" /\ calls > 0 /\ cout # << >>) =>
          DrawnWith(cout[Len(cout)], results[Len(results)].passed, shown)
    /\ (pc = "done" /\ results # << >>) =>
          /\ Cardinality(MarkedLines) = Len(results)
          /\ \A i \in 1..Len(results) :
                \E k \in MarkedLines :
                   /\ Within(" " \o results[i].name, cout[k])
                   /\ DrawnWith(cout[k], results[i].passed, Marks)

\* the epilog has printed two records, after both the check-mark style and
\* the timing switch were changed since the last test ran
C20_Witness ==
    /\ pc = "done"
    /\ Len(results) >= 2
    /\ shown.ascii # useAscii
    /\ shown.perf # showPerf

\* C21: on every path through the epilog the last line printed is the one
\* word SUCCESS or the one word FAILURE, and the exit status agrees with it.
C21_LastLineOneWord ==
    pc = "done" =>
      /\ cout # << >>
      /\ cout[Len(cout)] \in {"SUCCESS", "FAILURE"}
      /\ (cout[Len(cout)] = "SUCCESS") <=> (exitStatus = EXIT_SUCCESS)
      /\ (cout[Len(cout)] = "FAILURE") <=> (exitStatus = EXIT_FAILURE)

\* C22: an assertion whose predicate succeeds has no observable effect: it
\* raises nothing, writes nothing to the output, and leaves the result store,
\* the any-failure flag and the four configuration values as they were.
C22_SuccessHasNoEffect ==
    [][(apc = "called" /\ apc' = "returned") =>
         /\ raised' = NoException
         /\ cout' = cout
         /\ results' = results
         /\ errorFound' = errorFound
         /\ config' = config]_vars

\* an assertion has returned in the body of a later test, with a failed
\* record in the store, the flag set, a result line on the output and the
\* configuration away from its defaults
C22_Witness ==
    /\ apc = "returned"
    /\ calls >= 1 /\ calls = Len(results)
    /\ errorFound
    /\ cout # << >>
    /\ ~useAscii /\ verbose

\* the same expansion with the plain macro in place of the _MSG one
PlainOf(c) == [c EXCEPT !.macro = SubSeq(c.macro, 1, Len(c.macro) - Len("_MSG"))]

AllMacros ==
    ConditionMacros \cup CompareMacros \cup NullMacros \cup ThrowMacros
        \cup PointerMacros \cup StringMacros

\* C23: the _MSG variant of every assertion kind raises exactly when the
\* plain variant raises on the same operands, and what it raises carries the
\* message the caller supplied.
C23_MsgVariantSamePredicate ==
    (EndsWith(call.macro, "_MSG") /\ apc \in {"returned", "raised"}) =>
        /\ PlainOf(call).macro \in AllMacros
        /\ Builds(PlainOf(call))
        /\ (apc = "raised") <=> (Expand(PlainOf(call)).type # "none")
        /\ (apc = "raised") => /\ raised.type = "AssertionException"
                               /\ call.msg # ""
                               /\ Within(call.msg, raised.what)
                               /\ ~Within(call.msg, Expand(PlainOf(call)).what)

\* a contains-with-message on a text without the substring has raised, and
\* the diagnostic quotes the caller's message
C23_Witness ==
    /\ call.macro = "UTEST_ASSERT_STR_CONTAINS_MSG"
    /\ apc = "raised"
    /\ Within("'Custom error message'", raised.what)

\* the position in cout of the summary line of the k-th record of the store
RecordLine(k) ==
    CHOOSE i \in 1..Len(cout) : cout[i] = ResultLine(results[k], useAscii, showPerf)

\* the step is not a prolog starting the run over
SameRun == ~(calls' = 0 /\ calls > 0) /\ ~(pc = "done" /\ pc' = "running")

\* C24: between prolog and epilog the store only grows at its end: no step
\* of a runner, a setter or the epilog changes, drops or moves a record that
\* is in the store, so the k-th record is that of the k-th test invoked; and
\* within each group the report lists the records in the order of the store.
C24_StoreAppendOnly ==
    /\ [][SameRun =>
            /\ Len(results') \in {Len(results), Len(results) + 1}
            /\ SubSeq(results', 1, Len(results)) = results]_vars
    /\ [](\A k \in 1..Len(results) : results[k].name = TestName(k))
    /\ []((pc = "done" /\ results # << >>) =>
            \A i, j \in 1..Len(results) :
               (i < j /\ results[i].group = results[j].group) =>
                  RecordLine(i) < RecordLine(j))

\* three tests were recorded, the first and the third in group A with
\* another group between them, and the epilog has printed the report
C24_Witness ==
    /\ pc = "done"
    /\ Len(results) = 3
    /\ results[1].group = "A" /\ results[2].group = "B" /\ results[3].group = "A"
    /\ ~results[1].passed /\ results[3].passed
    /\ RecordLine(1) + 1 = RecordLine(3)

\* the name the runner prints for the most recent invocation
QualifiedName(c) == IF c.group = "" THEN c.name ELSE c.group \o "::" \o c.name

\* C25: with verbose mode on, a runner prints the announcement line with the
\* test's name (group::name for a grouped test) first, before the callable
\* runs and so before the result line, and also when the callable's
\* exception leaves the runner; with verbose mode off no announcement line
\* is printed.
C25_VerboseAnnouncesFirst ==
    [][calls' = calls + 1 =>
         IF verbose
         THEN /\ cout' # << >>
              /\ cout'[1] = "Running test: " \o QualifiedName(lastCall')
              /\ \A i \in 2..Len(cout') : ~StartsWith(cout'[i], "Running test: ")
              /\ lastCall'.returned =>
                    /\ Len(cout') = 2
                    /\ Within(" Test [" \o QualifiedName(lastCall') \o "] ", cout'[2])
         ELSE \A i \in 1..Len(cout') : ~StartsWith(cout'[i], "Running test: ")]_vars

\* a grouped test that failed was announced under its qualified name, and
\* its result line follows the announcement
C25_Witness ==
    /\ verbose
    /\ pc = "running"
    /\ lastCall.group = "B" /\ lastCall.name = "T2"
    /\ Len(cout) = 2
    /\ cout[1] = "Running test: B::T2"
    /\ StartsWith(cout[2], "[FAIL] Test [B::T2] failed")

\* the records of the store by outcome
PassedRecords == {k \in 1..Len(results) : results[k].passed}
FailedRecords == {k \in 1..Len(results) : ~results[k].passed}

\* the positions in cout of the line of totals
TotalLines == {i \in 1..Len(cout) : StartsWith(cout[i], "Total: ")}

\* C26: for a non-empty store the report prints every record exactly once,
\* and the line of totals gives passed = the number of records that passed,
\* failed = the number of records that failed, and total = passed + failed =
\* the number of records in the store.
C26_ReportCountsRecords ==
    (pc = "done" /\ results # << >>) =>
        /\ \A k \in 1..Len(results) :
              Cardinality({i \in 1..Len(cout) :
                             cout[i] = ResultLine(results[k], useAscii, showPerf)}) = 1
        /\ Cardinality(MarkedLines) = Len(results)
        /\ Cardinality(TotalLines) = 1
        /\ \A i \in TotalLines :
              /\ StartsWith(cout[i],
                     "Total: " \o ToString(Len(results)) \o " tests, "
                        \o ToString(Cardinality(PassedRecords)) \o " passed ")
              /\ Within(", " \o ToString(Cardinality(FailedRecords)) \o " failed ", cout[i])
        /\ Cardinality(PassedRecords) + Cardinality(FailedRecords) = Len(results)

\* a report over three records in two groups, two of one group passed and
\* one failed
C26_Witness ==
    /\ pc = "done"
    /\ Len(results) = 3
    /\ results[1].group = "A" /\ results[2].group = "A" /\ results[3].group = ""
    /\ PassedRecords = {1, 2}
    /\ \E i \in TotalLines : StartsWith(cout[i], "Total: 3 tests, 2 passed ")

\* C27: after a prolog and any sequence of runner calls that returned to
\* the caller, the any-failure flag is set if and only if the store holds a
\* record with passed = false.
C27_FlagIffFailedRecord ==
    pc \in {"running", "done"} => (errorFound <=> FailedRecords # {})

\* the second of three tests failed and the third passed after it: the flag
\* is still set
C27_Witness ==
    /\ pc = "running"
    /\ Len(results) = 3
    /\ FailedRecords = {2}
    /\ errorFound
    /\ lastCall.thrown = NoException

\* C28: the configuration is changed only by its setters.  A step that
\* moves the run (prolog, a runner, epilog: the position, the number of
\* invocations, the store or the flag changes) leaves the four values as
\* they were, and a step that changes one of the four values leaves the
\* store and the flag as they were; allowEmptyTests and verboseMode, once
\* set, stay set, also across another prolog.
C28_OnlySettersChangeConfig ==
    /\ [][(pc' # pc \/ calls' # calls \/ results' # results \/ errorFound' # errorFound)
            => config' = config]_vars
    /\ [][allowEmpty => allowEmpty']_vars
    /\ [][verbose => verbose']_vars

\* both switches were set during a run with a failure; after another prolog
\* they are still set, and the epilog of the empty second run accepts it
C28_Witness ==
    /\ priorFailure
    /\ allowEmpty /\ verbose
    /\ pc = "done"
    /\ results = << >>
    /\ exitStatus = EXIT_SUCCESS

\* the body of the test is a does-not-throw around a callable in which an
\* assertion fails
NestedFailure ==
    /\ call.macro \in {"UTEST_ASSERT_DOES_NOT_THROW", "UTEST_ASSERT_DOES_NOT_THROW_MSG"}
    /\ call.f.type = "AssertionException"

\* C29: a failure signal raised by an assertion inside the callable given
\* to the does-not-throw assertion is not lost: the helper raises a new
\* failure signal whose message embeds the nested signal's message, and the
\* runner records the enclosing test as failed with that message.
C29_NestedFailureNotLost ==
    /\ [][(NestedFailure /\ apc = "called" /\ apc' # "called") =>
            /\ apc' = "raised"
            /\ raised'.type = "AssertionException"
            /\ Within(call.f.what, raised'.what)]_vars
    /\ [][(NestedFailure /\ calls' = calls + 1) =>
            /\ results' = Append(results, results'[Len(results')])
            /\ ~results'[Len(results')].passed
            /\ Within(call.f.what, results'[Len(results')].error)
            /\ errorFound']_vars

\* the first test, whose body was a does-not-throw around a failing
\* assertion, is in the store as failed with the nested message in its error
C29_Witness ==
    /\ NestedFailure
    /\ call.macro = "UTEST_ASSERT_DOES_NOT_THROW"
    /\ calls = 1 /\ Len(results) = 1
    /\ ~results[1].passed
    /\ StartsWith(results[1].error,
                  "Unexpected exception thrown: condition is false: 'x'")

\* the transliteration of a wide text: codes 0 .. 127 kept, any other code
\* replaced by the placeholder
RECURSIVE Transliterated(_)
Transliterated(w) ==
    IF w = << >> THEN ""
    ELSE (IF Head(w) \in 0..127 THEN CharOf(Head(w)) ELSE "?") \o Transliterated(Tail(w))

\* the text the claim gives the wide operand of the call
WideText == IF call.x.type.cat = "wchar_t*" /\ call.x.num = 0 THEN ""
            ELSE Transliterated(call.x.wide)

\* C30: the four string assertions (equality, inequality, contains,
\* not-contains) take a wide text and compare its transliteration: a text of
\* the same length in which every code in 0 .. 127 is kept and every other
\* code, negative ones included, is replaced by '?'; a null wide C-string
\* gives the empty text.
C30_WideTransliteration ==
    apc # "called" =>
        /\ apc \in {"returned", "raised"}
        /\ Len(WideText) = (IF call.x.type.cat = "wchar_t*" /\ call.x.num = 0
                            THEN 0 ELSE Len(call.x.wide))
        /\ (apc = "returned") <=>
              CASE call.macro \in {"UTEST_ASSERT_STR_EQUALS", "UTEST_ASSERT_STR_EQUALS_MSG"} ->
                     WideText = call.y.text
                [] call.macro \in {"UTEST_ASSERT_STR_NOT_EQUALS",
                                   "UTEST_ASSERT_STR_NOT_EQUALS_MSG"} ->
                     WideText # call.y.text
                [] call.macro \in {"UTEST_ASSERT_STR_CONTAINS",
                                   "UTEST_ASSERT_STR_CONTAINS_MSG"} ->
                     Within(call.y.text, WideText)
                [] OTHER -> ~Within(call.y.text, WideText)
        /\ apc = "raised" => Within("\"" \o WideText \o "\"", raised.what)

====
